---- MODULE Spec2Model ----
(***************************************************************************)
(* Nematode Scavenger Hunt: the torus grid (Environment), the agent        *)
(* (Nematode) and its partial observation of the grid (getSquares).        *)
(*                                                                         *)
(* src/indexEasy.js holds two generations of the library:                  *)
(*   "richer"  - lines 163..913, click handler at line 870 (no Stay)       *)
(*   "simpler" - lines 962..1555, click handler at line 1533 (Stay moves)  *)
(* Both are modelled; the variable kind says which one a behaviour runs.   *)
(*                                                                         *)
(* The pages (src/index.js, src/indexEasy.js lines 1..114) bind the        *)
(* nematode to the document: they register click callbacks, count the      *)
(* moves down and start a new game when the budget is used up.  The pages  *)
(* read and write three members of the nematode that no Nematode under     *)
(* src/ defines: energy, alive and giveLife.  These three are modelled     *)
(* from the specification of the agent (energy is 0 after a reset and      *)
(* grows by the value of the cell moved to; giveLife resets the game).     *)
(*                                                                         *)
(* src/nematode.js, and src/indexEasy.js from line 1557 on, hold an older  *)
(* interface, the functions of the object context; its createLandscape,    *)
(* getSquare, getCoordinateFunc and getNematodeSquares are modelled as     *)
(* functions that are called directly.                                     *)
(***************************************************************************)
EXTENDS Integers, Sequences, FiniteSets, TLC

VARIABLES kind, landscape, variant, positions, movements, view, pending, probe,
          page, clickCallbacks, maxMoves, energy, alive, timers, calls

vars == <<kind, landscape, variant, positions, movements, view, pending, probe,
          page, clickCallbacks, maxMoves, energy, alive, timers, calls>>
nemaVars == <<variant, positions, movements, view, pending>>
\* What a page sets up once, when the document is ready.
pageVars == <<page, clickCallbacks, maxMoves>>
\* The state of a game: the score, the alive flag, the number of gameOver
\* timeouts that have not fired yet, and the calls of the click callbacks
\* made by the last handler that ran them.
gameVars == <<energy, alive, timers, calls>>

(***************************************************************************)
(* Bounds of the model.                                                    *)
(***************************************************************************)
MaxRows == 3
MaxCols == 1
MaxMoves == 2
MaxIndex == 4
MaxK == 2
WalkCols == 3
GameRows == 2
MaxBudget == 2
MaxTimers == 2
MaxEnergy == 2
MaxRange == 1

(***************************************************************************)
(* Values.                                                                 *)
(***************************************************************************)
Undefined == "undefined"
Kinds == {"richer", "simpler"}
\* An optional argument: <<>> is an argument that was not provided.
NotProvided == <<>>
\* The values a variant can be given; 4 stands for any unrecognised value.
VariantValues == 0..4
\* The values chosen in the variant selector of a page.
SelectValues == {0, 2}
IndexInputs == (0 - MaxIndex)..MaxIndex
KInputs == (0 - MaxK)..MaxK

\* JavaScript's %: the remainder takes the sign of the dividend (a negative
\* zero compares and indexes as zero).
JsRem(a, n) == IF a >= 0 THEN a % n ELSE 0 - ((0 - a) % n)

\* Math.floor(Math.random() * n)
RandomIndex(n) == 0..(n - 1)

(***************************************************************************)
(* createLandscape: the matrix of cells with their coordinate labels and   *)
(* the value z of the field at the centre of the cell.  The field is given *)
(* by the cell it is sampled at, and takes integer values.  The real-space *)
(* coordinates x and y of the cells and the extremes min and max are       *)
(* computed by the operators that follow createLandscape; a direct call of *)
(* createLandscape records them with the matrix.                           *)
(***************************************************************************)
GridN(k, nRows, nCols, i) == IF k = "richer" THEN nRows - i - 1 ELSE nCols - i - 1

\* The fields a page can pass as func: one that is 0 everywhere, and one
\* that takes the values -1, 1 and 3.
Funcs == {"flat", "waves"}
FuncValue(func, i, j) == IF func = "flat" THEN 0 ELSE 2 * ((i + 2 * j) % 3) - 1

createLandscape(k, func, nRows, nCols) ==
    [nRows |-> nRows, nCols |-> nCols,
     matrix |-> [i \in 0..(nRows - 1) |-> [j \in 0..(nCols - 1) |->
                   [i |-> i, j |-> j, a |-> j, b |-> i,
                    z |-> FuncValue(func, i, j),
                    m |-> j, n |-> GridN(k, nRows, nCols, i),
                    ignorant |-> FALSE]]]]

\* d3.range(nRows).reverse() and d3.range(nCols): the domains of the scales
\* i_to_y and j_to_x, as sequences.
RowsDomainForward(nRows) == [k \in 1..nRows |-> k - 1]
RowsDomain(nRows) == [k \in 1..nRows |-> nRows - k]
ColsDomain(nCols) == [k \in 1..nCols |-> k - 1]

\* The 0-based place of d in a domain.
IndexOf(domain, d) == (CHOOSE k \in 1..Len(domain) : domain[k] = d) - 1

\* scale(d) + scale.rangeBand() / 2 for scale =
\* d3.scale.ordinal().domain(domain).rangeBands([lo, hi]): the bands have
\* the width step = (hi - lo) / n and the band of the k-th element of the
\* domain starts at lo + step * k.  The quotient is kept exact: num / den.
BandCentre(domain, lo, hi, d) ==
    LET n == Len(domain)
        start == 2 * n * lo
        step == 2 * (hi - lo)
        rangeBand == step
    IN [num |-> (start + step * IndexOf(domain, d)) + (rangeBand \div 2), den |-> 2 * n]

\* x of the cells of column j, and y of the cells of row i.
CellX(range, nCols, j) == BandCentre(ColsDomain(nCols), range.xMin, range.xMax, j)
CellY(range, nRows, i) == BandCentre(RowsDomain(nRows), range.yMin, range.yMax, i)

\* Numbers with the two infinities the scan for the extremes starts from.
Fin(v) == [inf |-> 0, v |-> v]
Infinity == [inf |-> 1, v |-> 0]
NegInfinity == [inf |-> 0 - 1, v |-> 0]
Less(a, b) == a.inf < b.inf \/ (a.inf = 0 /\ b.inf = 0 /\ a.v < b.v)

\* if (z < minz) minz = z; if (z > maxz) maxz = z;
Seen(z, ext) ==
    [min |-> IF Less(Fin(z), ext.min) THEN Fin(z) ELSE ext.min,
     max |-> IF Less(ext.max, Fin(z)) THEN Fin(z) ELSE ext.max]

\* The inner loop over the columns of row i, from column j on.  Once a value
\* has been seen min is not above max; the test on it has the extremes of a
\* step computed before the next step starts.
RECURSIVE ScanRow(_, _, _, _)
ScanRow(ls, i, j, ext) ==
    IF j >= ls.nCols THEN ext
    ELSE LET seen == Seen(ls.matrix[i][j].z, ext) IN
         IF Less(seen.max, seen.min) THEN seen
         ELSE ScanRow(ls, i, j + 1, seen)

\* The outer loop over the rows, from row i on.
RECURSIVE ScanRows(_, _, _)
ScanRows(ls, i, ext) ==
    IF i >= ls.nRows THEN ext
    ELSE LET row == ScanRow(ls, i, 0, ext) IN
         IF Less(row.max, row.min) THEN row
         ELSE ScanRows(ls, i + 1, row)

\* A faulty Extremes: the scan starts from 0, not from the infinities.
ExtremesFromZero(ls) == ScanRows(ls, 0, [min |-> Fin(0), max |-> Fin(0)])

\* landscape.min and landscape.max
Extremes(ls) == ScanRows(ls, 0, [min |-> Infinity, max |-> NegInfinity])

(***************************************************************************)
(* Environment                                                             *)
(***************************************************************************)
\* A faulty WrapIndex: the negative remainder is negated instead of shifted by n.
WrapIndexAbs(i, n) == LET ii == JsRem(i, n) IN IF ii < 0 THEN 0 - ii ELSE ii

WrapIndex(i, n) == LET ii == JsRem(i, n) IN IF ii < 0 THEN n + ii ELSE ii

\* A faulty getMatrixCoordinates: the remainder is returned without the
\* correction for negatives.
getMatrixCoordinatesNoFix(ls, i, j) ==
    [i |-> JsRem(i, ls.nRows), j |-> JsRem(j, ls.nCols)]

getMatrixCoordinates(ls, i, j) ==
    [i |-> WrapIndex(i, ls.nRows), j |-> WrapIndex(j, ls.nCols)]

getSquare(ls, i, j) ==
    LET ii == WrapIndex(i, ls.nRows)
        jj == WrapIndex(j, ls.nCols)
    IN ls.matrix[ii][jj]

(***************************************************************************)
(* Nematode.getSquares                                                     *)
(***************************************************************************)
\* A faulty LocalSquares: the rows of the U and D squares are exchanged.
LocalSquaresFlipped(ls, i, j) ==
    << [i |-> 0, j |-> 1, movement |-> "U", cell |-> getSquare(ls, i + 1, j + 0)],
       [i |-> 1, j |-> 0, movement |-> "L", cell |-> getSquare(ls, i + 0, j - 1)],
       [i |-> 1, j |-> 1, movement |-> "S", cell |-> getSquare(ls, i + 0, j + 0)],
       [i |-> 1, j |-> 2, movement |-> "R", cell |-> getSquare(ls, i + 0, j + 1)],
       [i |-> 2, j |-> 1, movement |-> "D", cell |-> getSquare(ls, i - 1, j + 0)] >>

\* A faulty LocalSquares: the cells of the L and R squares are exchanged.
LocalSquaresMirrored(ls, i, j) ==
    << [i |-> 0, j |-> 1, movement |-> "U", cell |-> getSquare(ls, i - 1, j + 0)],
       [i |-> 1, j |-> 0, movement |-> "L", cell |-> getSquare(ls, i + 0, j + 1)],
       [i |-> 1, j |-> 1, movement |-> "S", cell |-> getSquare(ls, i + 0, j + 0)],
       [i |-> 1, j |-> 2, movement |-> "R", cell |-> getSquare(ls, i + 0, j - 1)],
       [i |-> 2, j |-> 1, movement |-> "D", cell |-> getSquare(ls, i + 1, j + 0)] >>

\* The squares before any is marked, in the order of the array literal.
LocalSquares(ls, i, j) ==
    << [i |-> 0, j |-> 1, movement |-> "U", cell |-> getSquare(ls, i - 1, j + 0)],
       [i |-> 1, j |-> 0, movement |-> "L", cell |-> getSquare(ls, i + 0, j - 1)],
       [i |-> 1, j |-> 1, movement |-> "S", cell |-> getSquare(ls, i + 0, j + 0)],
       [i |-> 1, j |-> 2, movement |-> "R", cell |-> getSquare(ls, i + 0, j + 1)],
       [i |-> 2, j |-> 1, movement |-> "D", cell |-> getSquare(ls, i + 1, j + 0)] >>

\* this.movements[this.positions.length - 1]; out of range reads undefined.
PrevMovement(pos, mov) == IF Len(pos) \in DOMAIN mov THEN mov[Len(pos)] ELSE Undefined

\* A faulty IgnorantVariant1: the square ahead is revealed after U and D.
IgnorantVariant1Ahead(pos, mov) ==
    IF Len(pos) > 1
    THEN LET prev == PrevMovement(pos, mov) IN
         CASE prev = "U" -> {1, 3, 4}
           [] prev = "L" -> {0, 1, 4}
           [] prev = "S" -> {0, 1, 3, 4}
           [] prev = "R" -> {0, 3, 4}
           [] prev = "D" -> {0, 1, 3}
           [] OTHER -> {}
    ELSE {0, 1, 3, 4}

\* Variant 1: the square the nematode came from is revealed.
IgnorantVariant1(pos, mov) ==
    IF Len(pos) > 1
    THEN LET prev == PrevMovement(pos, mov) IN
         CASE prev = "U" -> {0, 1, 3}
           [] prev = "L" -> {0, 1, 4}
           [] prev = "S" -> {0, 1, 3, 4}
           [] prev = "R" -> {0, 3, 4}
           [] prev = "D" -> {1, 3, 4}
           [] OTHER -> {}
    ELSE {0, 1, 3, 4}

\* A faulty IgnorantVariant2: the square behind is revealed after L and R.
IgnorantVariant2Behind(pos, mov) ==
    IF Len(pos) > 1
    THEN LET prev == PrevMovement(pos, mov) IN
         CASE prev = "U" -> {1, 3, 4}
           [] prev = "L" -> {0, 1, 4}
           [] prev = "S" -> {0, 1, 3, 4}
           [] prev = "R" -> {0, 3, 4}
           [] prev = "D" -> {0, 1, 3}
           [] OTHER -> {}
    ELSE {0, 1, 3, 4}

\* Variant 2: the square in the direction of the previous move is revealed.
IgnorantVariant2(pos, mov) ==
    IF Len(pos) > 1
    THEN LET prev == PrevMovement(pos, mov) IN
         CASE prev = "U" -> {1, 3, 4}
           [] prev = "L" -> {0, 3, 4}
           [] prev = "S" -> {0, 1, 3, 4}
           [] prev = "R" -> {0, 1, 4}
           [] prev = "D" -> {0, 1, 3}
           [] OTHER -> {}
    ELSE {0, 1, 3, 4}

\* A faulty Ignorant: variant 0 leaves the D square unmarked.
IgnorantVariant0Short(var, pos, mov) ==
    CASE var = 0 -> {0, 1, 3}
      [] var = 1 -> IgnorantVariant1(pos, mov)
      [] var = 2 -> IgnorantVariant2(pos, mov)
      [] var = 3 -> {}
      [] OTHER -> {}

\* A faulty Ignorant: variant 3 marks the square on the left.
IgnorantVariant3Marked(var, pos, mov) ==
    CASE var = 0 -> {0, 1, 3, 4}
      [] var = 1 -> IgnorantVariant1(pos, mov)
      [] var = 2 -> IgnorantVariant2(pos, mov)
      [] var = 3 -> {1}
      [] OTHER -> {}

\* The 0-based indices of the squares that are marked ignorant.
Ignorant(var, pos, mov) ==
    CASE var = 0 -> {0, 1, 3, 4}
      [] var = 1 -> IgnorantVariant1(pos, mov)
      [] var = 2 -> IgnorantVariant2(pos, mov)
      [] var = 3 -> {}
      [] OTHER -> {}

\* A marked square holds a copy of the cell with the flag set.
getSquares(ls, var, pos, mov, i, j) ==
    LET squares == LocalSquares(ls, i, j)
        ignorant == Ignorant(var, pos, mov)
    IN [idx \in 1..5 |->
          IF (idx - 1) \in ignorant
          THEN [squares[idx] EXCEPT !.cell = [@ EXCEPT !.ignorant = TRUE]]
          ELSE squares[idx]]

\* The squares draw() binds to the local view: getSquares at the last position.
DrawnSquares(ls, var, pos, mov) ==
    LET position == pos[Len(pos)]
    IN getSquares(ls, var, pos, mov, position.i, position.j)

\* A faulty MatrixAfterGetSquares: the flag is set on the cell of the
\* matrix itself, not on a copy of it.
MatrixMarkedInPlace(ls, var, pos, mov) ==
    LET position == pos[Len(pos)]
        squares == LocalSquares(ls, position.i, position.j)
        marked == {<<squares[idx + 1].cell.i, squares[idx + 1].cell.j>> : idx \in Ignorant(var, pos, mov)}
    IN [i \in 0..(ls.nRows - 1) |-> [j \in 0..(ls.nCols - 1) |->
          IF <<i, j>> \in marked
          THEN [ls.matrix[i][j] EXCEPT !.ignorant = TRUE]
          ELSE ls.matrix[i][j]]]

\* The matrix of the landscape once getSquares has returned: the cells of
\* the marked squares were replaced by copies before the flag was set, so
\* the matrix holds what it held.
MatrixAfterGetSquares(ls, var, pos, mov) == ls.matrix

\* draw(): getSquares at the last position, bound to the local view.
draw ==
    /\ view' = DrawnSquares(landscape, variant', positions', movements')
    /\ landscape' = [landscape EXCEPT
                       !.matrix = MatrixAfterGetSquares(landscape, variant', positions', movements')]

(***************************************************************************)
(* What draw() writes into the local view for a square.                    *)
(***************************************************************************)
\* The empty string, and z.toFixed(digits) for an integer z: the units
\* followed by the decimals, which are all 0.
EmptyText == << >>
toFixed(z, digits) == << z >> \o [k \in 1..digits |-> 0]

\* The colormap of the environment, a clamped linear scale from the
\* extremes of the landscape to a range of colours; a colour is given by
\* its place num / den between the first colour and the last one.  All
\* values map to the first colour when min = max.  The rounding of the
\* domain by nice() is left out.
colormap(ext, z) ==
    IF ext.max.v = ext.min.v THEN [num |-> 0, den |-> 1]
    ELSE LET clamped == IF z < ext.min.v THEN ext.min.v
                        ELSE IF z > ext.max.v THEN ext.max.v ELSE z
         IN [num |-> clamped - ext.min.v, den |-> ext.max.v - ext.min.v]

\* classFunc, colorFunc, titleFunc and fontColor applied to square d; ext
\* holds landscape.min and landscape.max.  The title is the tooltip of the
\* rect; the richer generation also writes the title as a text, filled by
\* fontColor (z > midpoint, with midpoint = min + (max - min) / 2).
Rendered(k, d, ext) ==
    LET title == IF ~d.cell.ignorant THEN toFixed(d.cell.z, 3) ELSE EmptyText
    IN [class |-> IF d.cell.ignorant THEN "cell ignorant" ELSE "cell",
        fill |-> colormap(ext, d.cell.z),
        title |-> title,
        text |-> IF k = "richer" THEN title ELSE EmptyText,
        textFill |-> IF k = "richer"
                     THEN (IF 2 * d.cell.z > ext.min.v + ext.max.v THEN "white" ELSE "black")
                     ELSE "none"]

(***************************************************************************)
(* The members of the nematode that the pages use and no Nematode under    *)
(* src/ defines.                                                           *)
(***************************************************************************)
\* The score and the flag of a nematode whose game starts.
LifeGiven == [energy |-> 0, alive |-> TRUE]

\* A faulty EnergyAfterMove: the value of the cell is not added.
EnergyAfterMoveIdle(e, cell) == e

\* The score after a move to cell.
EnergyAfterMove(e, cell) == e + cell.z

(***************************************************************************)
(* The click callbacks of the pages.                                       *)
(***************************************************************************)
\* The pages: src/index.js binds the move counter and has setVariant as its
\* change handler; src/indexEasy.js binds the countdown and gives life
\* after setVariant.  "none" is a nematode that no page has bound.
Pages == {"index", "easy"}

\* A faulty CountdownValue: the countdown is one move late.
CountdownValueLate(budget, pos) == budget - Len(pos) + 2

\* var val = maxMoves - this.positions.length + 1
CountdownValue(budget, pos) == budget - Len(pos) + 1

\* One call of a callback with the nematode as this: pos is this.positions
\* as the callback reads it.  st holds the flag, the timeouts and the calls
\* made so far; length is this.positions.length and shown the number the
\* callback writes into the document.
RunCallback(cb, st, pos) ==
    IF cb = "numberOfMoves"
    THEN [st EXCEPT !.calls = Append(@, [callback |-> cb, length |-> Len(pos),
                                         shown |-> Len(pos) - 1])]
    ELSE LET val == CountdownValue(maxMoves, pos) IN
         [alive |-> IF val <= 0 THEN FALSE ELSE st.alive,
          timers |-> IF val <= 0 THEN st.timers + 1 ELSE st.timers,
          calls |-> Append(st.calls, [callback |-> cb, length |-> Len(pos),
                                      shown |-> val])]

\* for (var i = 0; i < that.clickCallbacks.length; i++) { ... .call(that) }
RECURSIVE RunCallbacks(_, _, _, _)
RunCallbacks(cbs, k, st, pos) ==
    IF k > Len(cbs) THEN st
    ELSE RunCallbacks(cbs, k + 1, RunCallback(cbs[k], st, pos), pos)

\* The loop over the callbacks as a step; a timeout is set only while fewer
\* than MaxTimers are waiting.
callClickCallbacks(pos) ==
    LET st == RunCallbacks(clickCallbacks, 1,
                           [alive |-> alive, timers |-> timers, calls |-> << >>], pos)
    IN /\ st.timers <= MaxTimers
       /\ alive' = st.alive
       /\ timers' = st.timers
       /\ calls' = st.calls

(***************************************************************************)
(* Nematode: construction                                                  *)
(***************************************************************************)
\* i = typeof i !== 'undefined' ? i : Math.floor(Math.random() * n)
ArgValues(arg, n) == IF arg = NotProvided THEN RandomIndex(n) ELSE {arg[1]}
OptionalIndex == {NotProvided} \cup {<<v>> : v \in IndexInputs}

\* variant = typeof variant !== 'undefined' ? variant : "0"
VariantOf(arg) == IF arg = NotProvided THEN 0 ELSE arg[1]
OptionalVariant == {NotProvided} \cup {<<v>> : v \in VariantValues}

\* probe records the last direct call of an Environment method (see SpecEnv).
\* args holds the arguments of a call that takes other arguments than (i, j).
NoProbe == [op |-> "none", i |-> 0, j |-> 0, k |-> 0, args |-> <<>>,
            result |-> <<>>, shifted |-> <<>>]

\* A nematode that no page has bound: no callbacks, no budget.
Unbound ==
    /\ page = "none"
    /\ clickCallbacks = << >>
    /\ maxMoves = 0
    /\ energy = LifeGiven.energy
    /\ alive = LifeGiven.alive
    /\ timers = 0
    /\ calls = << >>

Init ==
    /\ kind \in Kinds
    /\ \E nRows \in 1..MaxRows, nCols \in 1..MaxCols :
          landscape = createLandscape(kind, "flat", nRows, nCols)
    /\ \E v \in OptionalVariant : variant = VariantOf(v)
    /\ \E iArg \in OptionalIndex, jArg \in OptionalIndex :
         \E i \in ArgValues(iArg, landscape.nRows), j \in ArgValues(jArg, landscape.nCols) :
            positions = << getMatrixCoordinates(landscape, i, j) >>
    /\ movements = << Undefined >>
    /\ view = DrawnSquares(landscape, variant, positions, movements)
    /\ pending = FALSE
    /\ probe = NoProbe
    /\ Unbound

(***************************************************************************)
(* Nematode: operations                                                    *)
(***************************************************************************)
\* A faulty ClickSquare: the handler does not record the movement.
ClickSquareNoMovement(idx) ==
    /\ Len(positions) <= MaxMoves
    /\ LET p == view[idx] IN
       IF kind = "richer" /\ p.i = 1 /\ p.j = 1
       THEN UNCHANGED <<nemaVars, gameVars>>
       ELSE /\ positions' = Append(positions, [i |-> p.cell.i, j |-> p.cell.j])
            /\ energy' = EnergyAfterMove(energy, p.cell)
            /\ energy' \in (0 - MaxEnergy)..MaxEnergy
            /\ pending' = TRUE
            /\ callClickCallbacks(positions')
            /\ UNCHANGED <<variant, view, movements>>
    /\ UNCHANGED <<kind, landscape, probe, pageVars>>

\* A faulty ClickSquare: the handler records the last position plus the
\* clicked square's frame offset, without wrapping.
ClickSquareUnwrapped(idx) ==
    /\ Len(positions) <= MaxMoves
    /\ LET p == view[idx]
           last == positions[Len(positions)] IN
       IF kind = "richer" /\ p.i = 1 /\ p.j = 1
       THEN UNCHANGED <<nemaVars, gameVars>>
       ELSE /\ positions' = Append(positions, [i |-> last.i + p.i - 1, j |-> last.j + p.j - 1])
            /\ movements' = Append(movements, p.movement)
            /\ energy' = EnergyAfterMove(energy, p.cell)
            /\ energy' \in (0 - MaxEnergy)..MaxEnergy
            /\ pending' = TRUE
            /\ callClickCallbacks(positions')
            /\ UNCHANGED <<variant, view>>
    /\ UNCHANGED <<kind, landscape, probe, pageVars>>

\* A faulty ClickSquare: the richer nematode accepts a click on the centre.
ClickSquareStayAllowed(idx) ==
    /\ Len(positions) <= MaxMoves
    /\ LET p == view[idx] IN
       /\ positions' = Append(positions, [i |-> p.cell.i, j |-> p.cell.j])
       /\ movements' = Append(movements, p.movement)
       /\ energy' = EnergyAfterMove(energy, p.cell)
       /\ energy' \in (0 - MaxEnergy)..MaxEnergy
       /\ pending' = TRUE
       /\ callClickCallbacks(positions')
       /\ UNCHANGED <<variant, view>>
    /\ UNCHANGED <<kind, landscape, probe, pageVars>>

\* A faulty ClickSquare: the callbacks run before the history is extended.
ClickSquareCallbacksFirst(idx) ==
    /\ Len(positions) <= MaxMoves
    /\ LET p == view[idx] IN
       IF kind = "richer" /\ p.i = 1 /\ p.j = 1
       THEN UNCHANGED <<nemaVars, gameVars>>
       ELSE /\ callClickCallbacks(positions)
            /\ positions' = Append(positions, [i |-> p.cell.i, j |-> p.cell.j])
            /\ movements' = Append(movements, p.movement)
            /\ energy' = EnergyAfterMove(energy, p.cell)
            /\ energy' \in (0 - MaxEnergy)..MaxEnergy
            /\ pending' = TRUE
            /\ UNCHANGED <<variant, view>>
    /\ UNCHANGED <<kind, landscape, probe, pageVars>>

\* A click on square idx of the local view as it was last drawn.  The
\* history is extended, the score grows by the value of the cell moved to,
\* the transition starts and the callbacks run.  The view is redrawn only
\* when the transition the click starts has ended; pending says that some
\* such transition has not ended yet.  The score is kept within MaxEnergy.
ClickSquare(idx) ==
    /\ Len(positions) <= MaxMoves
    /\ LET p == view[idx] IN
       IF kind = "richer" /\ p.i = 1 /\ p.j = 1
       THEN UNCHANGED <<nemaVars, gameVars>>
       ELSE /\ positions' = Append(positions, [i |-> p.cell.i, j |-> p.cell.j])
            /\ movements' = Append(movements, p.movement)
            /\ energy' = EnergyAfterMove(energy, p.cell)
            /\ energy' \in (0 - MaxEnergy)..MaxEnergy
            /\ pending' = TRUE
            /\ callClickCallbacks(positions')
            /\ UNCHANGED <<variant, view>>
    /\ UNCHANGED <<kind, landscape, probe, pageVars>>

\* The end of a transition started by a click: that.draw().  The
\* transitions of other clicks may still be running.
TransitionEnd ==
    /\ pending
    /\ pending' \in BOOLEAN
    /\ UNCHANGED <<variant, positions, movements>>
    /\ draw
    /\ UNCHANGED <<kind, probe, pageVars, gameVars>>

\* A faulty setVariant: the history is cleared as setPosition clears it.
setVariantFromStart(v) ==
    /\ variant' = v
    /\ positions' = << positions[Len(positions)] >>
    /\ movements' = << Undefined >>
    /\ draw
    /\ UNCHANGED <<kind, pending, probe, pageVars, gameVars>>

setVariant(v) ==
    /\ variant' = v
    /\ UNCHANGED <<positions, movements>>
    /\ draw
    /\ UNCHANGED <<kind, pending, probe, pageVars, gameVars>>

\* A faulty Teleport: setPosition does not reset the movements.
TeleportKeepMovements(i, j) ==
    /\ LET d == landscape.matrix[i][j] IN
         positions' = << getMatrixCoordinates(landscape, d.i, d.j) >>
    /\ UNCHANGED <<variant, movements>>
    /\ draw
    /\ callClickCallbacks(positions')
    /\ UNCHANGED <<kind, pending, probe, pageVars, energy>>

\* A click on cell (i, j) of the global view: setPosition, draw, and the
\* click callbacks.
Teleport(i, j) ==
    /\ LET d == landscape.matrix[i][j] IN
         positions' = << getMatrixCoordinates(landscape, d.i, d.j) >>
    /\ movements' = << Undefined >>
    /\ UNCHANGED variant
    /\ draw
    /\ callClickCallbacks(positions')
    /\ UNCHANGED <<kind, pending, probe, pageVars, energy>>

Next ==
    \/ \E idx \in 1..5 : ClickSquare(idx)
    \/ TransitionEnd
    \/ \E v \in VariantValues : setVariant(v)
    \/ \E i \in 0..(landscape.nRows - 1), j \in 0..(landscape.nCols - 1) : Teleport(i, j)

Spec == Init /\ [][Next]_vars

(***************************************************************************)
(* A walk: every click is made on a view that has been redrawn after the   *)
(* click before it.  The nematode is new Nematode(e, .., 0) at a random    *)
(* cell of a small grid.                                                   *)
(***************************************************************************)
InitWalk ==
    /\ kind \in Kinds
    /\ \E nRows \in 1..MaxRows, nCols \in 1..WalkCols :
          landscape = createLandscape(kind, "flat", nRows, nCols)
    /\ variant = VariantOf(<<0>>)
    /\ \E i \in ArgValues(NotProvided, landscape.nRows), j \in ArgValues(NotProvided, landscape.nCols) :
          positions = << getMatrixCoordinates(landscape, i, j) >>
    /\ movements = << Undefined >>
    /\ view = DrawnSquares(landscape, variant, positions, movements)
    /\ pending = FALSE
    /\ probe = NoProbe
    /\ Unbound

\* A click on a square of the local view once draw() has bound the squares
\* of the last position to it.
ClickOnRedrawnView(idx) ==
    /\ view = DrawnSquares(landscape, variant, positions, movements)
    /\ ClickSquare(idx)

NextWalk ==
    \/ \E idx \in 1..5 : ClickOnRedrawnView(idx)
    \/ TransitionEnd

SpecWalk == InitWalk /\ [][NextWalk]_vars

(***************************************************************************)
(* A game on a page.  The grid is a single column of cells whose field     *)
(* takes the values -1, 1 and 3; the budget of the easy page is the        *)
(* argument maxMoves of bindMovesCountdown.                                *)
(***************************************************************************)
\* What the page binds when the document is ready.
PageBound ==
    /\ page \in Pages
    /\ IF page = "easy"
       THEN /\ clickCallbacks = << "countdown" >>
            /\ maxMoves \in 1..MaxBudget
       ELSE /\ clickCallbacks = << "numberOfMoves" >>
            /\ maxMoves = 0
    /\ energy = LifeGiven.energy
    /\ alive = LifeGiven.alive
    /\ timers = 0
    /\ calls = << >>

InitGame ==
    /\ kind \in Kinds
    /\ landscape = createLandscape(kind, "waves", GameRows, 1)
    /\ variant = VariantOf(<<0>>)
    /\ \E i \in ArgValues(NotProvided, landscape.nRows), j \in ArgValues(NotProvided, landscape.nCols) :
          positions = << getMatrixCoordinates(landscape, i, j) >>
    /\ movements = << Undefined >>
    /\ view = DrawnSquares(landscape, variant, positions, movements)
    /\ pending = FALSE
    /\ probe = NoProbe
    /\ PageBound

\* A faulty giveLife: the score of the game before is kept.
giveLifeKeepEnergy ==
    /\ \E i \in RandomIndex(landscape.nRows), j \in RandomIndex(landscape.nCols) :
          positions' = << getMatrixCoordinates(landscape, i, j) >>
    /\ movements' = << Undefined >>
    /\ energy' = energy
    /\ alive' = LifeGiven.alive

\* giveLife(): the nematode is put on a random cell by setPosition() and
\* its score and flag are those of a game that starts.  The local view is
\* left as it is: the hard page calls draw() itself after giveLife().
giveLife ==
    /\ \E i \in RandomIndex(landscape.nRows), j \in RandomIndex(landscape.nCols) :
          positions' = << getMatrixCoordinates(landscape, i, j) >>
    /\ movements' = << Undefined >>
    /\ energy' = LifeGiven.energy
    /\ alive' = LifeGiven.alive

\* The change handler of the variant selector.  On the easy page giveLife
\* follows setVariant: the view is the one setVariant has drawn, at the
\* position the nematode had.
bindVariant(v) ==
    IF page = "easy"
    THEN /\ variant' = v
         /\ giveLife
         /\ view' = DrawnSquares(landscape, v, positions, movements)
         /\ landscape' = [landscape EXCEPT
                            !.matrix = MatrixAfterGetSquares(landscape, v, positions, movements)]
         /\ UNCHANGED <<kind, pending, probe, pageVars, timers, calls>>
    ELSE setVariant(v)

\* A gameOver timeout fires on the easy page: the score is reported and the
\* nematode is given life.  The page does not draw the local view again.
gameOver ==
    /\ timers > 0
    /\ timers' = timers - 1
    /\ giveLife
    /\ UNCHANGED <<kind, landscape, variant, view, pending, probe, pageVars, calls>>

\* The data gameOver posts to the server, read from the nematode when the
\* timeout fires.
GameReport ==
    [nematode |-> variant, landscape |-> page, moves |-> Len(positions) - 1, score |-> energy]

NextGame ==
    \/ \E idx \in 1..5 : ClickSquare(idx)
    \/ TransitionEnd
    \/ \E v \in SelectValues : bindVariant(v)
    \/ \E i \in 0..(landscape.nRows - 1), j \in 0..(landscape.nCols - 1) : Teleport(i, j)
    \/ gameOver

SpecGame == InitGame /\ [][NextGame]_vars

(***************************************************************************)
(* The hard page, src/indexHard.js.  Its grid is modelled by the single    *)
(* column of the games above.  The page binds the countdown by             *)
(* bindMovesCountdown("#moves", o, 75), a call with three arguments of a   *)
(* function with the parameters (moveID, energyID, nema, maxMoves).        *)
(***************************************************************************)
HardBudget == 75

\* The values passed in a call: a string, the nematode o, or a number.
StringArg(v) == [type |-> "string", v |-> v]
NematodeArg == [type |-> "nematode", v |-> "o"]
NumberArg(v) == [type |-> "number", v |-> v]
UndefinedArg == [type |-> "undefined", v |-> Undefined]

\* The arguments of the call of bindMovesCountdown on the hard page.
HardArgs == << StringArg("#moves"), NematodeArg, NumberArg(HardBudget) >>

\* The k-th parameter of a call: a parameter without an argument is undefined.
Parameter(args, k) == IF k \in DOMAIN args THEN args[k] ELSE UndefinedArg

\* bindMovesCountdown(moveID, energyID, nema, maxMoves): what the call
\* leaves in nema.clickCallbacks and the budget of the callback it has
\* pushed.  nema.clickCallbacks.push throws a TypeError when nema is not the
\* nematode (clickCallbacks of a number is undefined): nothing is pushed
\* then and the rest of the page's ready handler does not run.
bindMovesCountdown(args) ==
    LET nema == Parameter(args, 3)
        budget == Parameter(args, 4)
    IN IF nema.type = "nematode"
       THEN [clickCallbacks |-> << "countdown" >>, maxMoves |-> budget.v, thrown |-> FALSE]
       ELSE [clickCallbacks |-> << >>, maxMoves |-> 0, thrown |-> TRUE]

InitHard ==
    /\ kind \in Kinds
    /\ landscape = createLandscape(kind, "waves", GameRows, 1)
    /\ variant = VariantOf(<<0>>)
    /\ \E i \in ArgValues(NotProvided, landscape.nRows), j \in ArgValues(NotProvided, landscape.nCols) :
          positions = << getMatrixCoordinates(landscape, i, j) >>
    /\ movements = << Undefined >>
    /\ view = DrawnSquares(landscape, variant, positions, movements)
    /\ pending = FALSE
    /\ probe = NoProbe
    /\ page = "hard"
    /\ LET bound == bindMovesCountdown(HardArgs) IN
         /\ clickCallbacks = bound.clickCallbacks
         /\ maxMoves = bound.maxMoves
    /\ energy = LifeGiven.energy
    /\ alive = LifeGiven.alive
    /\ timers = 0
    /\ calls = << >>

\* The steps of the hard page.  gameOver is called by the countdown
\* callback alone.
NextHard ==
    \/ \E idx \in 1..5 : ClickSquare(idx)
    \/ TransitionEnd
    \/ \E v \in SelectValues : bindVariant(v)
    \/ \E i \in 0..(landscape.nRows - 1), j \in 0..(landscape.nCols - 1) : Teleport(i, j)

SpecHard == InitHard /\ [][NextHard]_vars

(***************************************************************************)
(* Direct calls of the Environment's methods with arbitrary integers.      *)
(* The arguments (i, j) and a number k of grid periods are drawn when the  *)
(* behaviour starts; a call records its result for (i, j) and its result   *)
(* for (i + k*nRows, j + k*nCols).  The grid is one of the small grids or  *)
(* the 20 x 20 grid of the easy page; the nematode is                      *)
(* new Nematode(e, .., 0, 0, 0).                                           *)
(***************************************************************************)
EasyRows == 20
EasyCols == 20

InitEnv ==
    /\ kind \in Kinds
    /\ \E nRows \in (1..MaxRows) \cup {EasyRows}, nCols \in (1..MaxCols) \cup {EasyCols} :
          landscape = createLandscape(kind, "flat", nRows, nCols)
    /\ variant = VariantOf(<<0>>)
    /\ positions = << getMatrixCoordinates(landscape, 0, 0) >>
    /\ movements = << Undefined >>
    /\ view = DrawnSquares(landscape, variant, positions, movements)
    /\ pending = FALSE
    /\ \E i \in IndexInputs, j \in IndexInputs, k \in KInputs :
          probe = [NoProbe EXCEPT !.i = i, !.j = j, !.k = k]
    /\ Unbound

CallGetMatrixCoordinates ==
    /\ probe' = [probe EXCEPT
                   !.op = "getMatrixCoordinates",
                   !.result = getMatrixCoordinates(landscape, probe.i, probe.j),
                   !.shifted = getMatrixCoordinates(landscape,
                                   probe.i + probe.k * landscape.nRows,
                                   probe.j + probe.k * landscape.nCols)]
    /\ UNCHANGED <<kind, landscape, nemaVars, pageVars, gameVars>>

CallGetSquare ==
    /\ probe' = [probe EXCEPT
                   !.op = "getSquare",
                   !.result = getSquare(landscape, probe.i, probe.j),
                   !.shifted = getSquare(landscape,
                                   probe.i + probe.k * landscape.nRows,
                                   probe.j + probe.k * landscape.nCols)]
    /\ UNCHANGED <<kind, landscape, nemaVars, pageVars, gameVars>>

NextEnv ==
    \/ CallGetMatrixCoordinates
    \/ CallGetSquare

SpecEnv == InitEnv /\ [][NextEnv]_vars

(***************************************************************************)
(* Direct calls of createLandscape.  The repository holds three of them:   *)
(* the two generations in src/indexEasy.js and context.createLandscape in  *)
(* src/nematode.js ("context"), which labels its cells as the simpler      *)
(* generation does.  The arguments are drawn when the behaviour starts:    *)
(* the field, a small grid or the 40 x 50 grid of the hard page, and the   *)
(* ends of the two ranges, the -3 and 3 of the pages among them.  A call   *)
(* records the landscape it returns; x is recorded once for every column   *)
(* and y once for every row, as all cells of a column have the same x and  *)
(* all cells of a row the same y.                                          *)
(***************************************************************************)
Libraries == Kinds \cup {"context"}
HardRows == 40
HardCols == 50
PageMax == 3
PageMin == 0 - PageMax
RangeEnds == {<<0 - MaxRange, 0>>, <<0, MaxRange>>, <<0 - MaxRange, MaxRange>>, <<PageMin, PageMax>>}
GridSizes == ((1..MaxRows) \X (1..WalkCols)) \cup {<<HardRows, HardCols>>}

InitLandscape ==
    /\ kind \in Kinds
    /\ landscape = createLandscape(kind, "flat", 1, 1)
    /\ variant = VariantOf(<<0>>)
    /\ positions = << getMatrixCoordinates(landscape, 0, 0) >>
    /\ movements = << Undefined >>
    /\ view = DrawnSquares(landscape, variant, positions, movements)
    /\ pending = FALSE
    /\ \E lib \in Libraries, func \in Funcs, size \in GridSizes, xs \in RangeEnds, ys \in RangeEnds :
          probe = [NoProbe EXCEPT !.args =
                     [library |-> lib, func |-> func, nRows |-> size[1], nCols |-> size[2],
                      xMin |-> xs[1], xMax |-> xs[2], yMin |-> ys[1], yMax |-> ys[2]]]
    /\ Unbound

CallCreateLandscape ==
    /\ probe.op = "none"
    /\ LET a == probe.args
           ls == createLandscape(a.library, a.func, a.nRows, a.nCols)
           ext == Extremes(ls)
       IN probe' = [probe EXCEPT
                      !.op = "createLandscape",
                      !.result = [nRows |-> ls.nRows, nCols |-> ls.nCols,
                                  min |-> ext.min, max |-> ext.max,
                                  matrix |-> ls.matrix,
                                  x |-> [j \in 0..(a.nCols - 1) |-> CellX(a, a.nCols, j)],
                                  y |-> [i \in 0..(a.nRows - 1) |-> CellY(a, a.nRows, i)]]]
    /\ UNCHANGED <<kind, landscape, nemaVars, pageVars, gameVars>>

NextLandscape == CallCreateLandscape

SpecLandscape == InitLandscape /\ [][NextLandscape]_vars

(***************************************************************************)
(* The older interface: the functions of the object context, in            *)
(* src/nematode.js and again in src/indexEasy.js from line 1557 on.        *)
(* context.landscape is the landscape the functions read.                  *)
(***************************************************************************)
\* context.getSquare(i, j)
contextGetSquare(ls, i, j) ==
    LET ii == JsRem(i, ls.nRows)
        jj == JsRem(j, ls.nCols)
    IN ls.matrix[IF ii < 0 THEN ls.nRows + ii ELSE ii][IF jj < 0 THEN ls.nCols + jj ELSE jj]

\* The two copies of context.getCoordinateFunc.
ContextCopies == {"nematode.js", "indexEasy.js"}

\* The function that context.getCoordinateFunc returns for a grid of nRows
\* rows and nCols columns, applied to (i, j).  The copy in src/nematode.js
\* returns the two remainders as they are.
getCoordinateFunc(copy, nRows, nCols, i, j) ==
    IF copy = "nematode.js"
    THEN [i |-> JsRem(i, nRows), j |-> JsRem(j, nCols)]
    ELSE LET ii == JsRem(i, nRows)
             jj == JsRem(j, nCols)
         IN [i |-> IF ii < 0 THEN nRows + ii ELSE ii,
             j |-> IF jj < 0 THEN nCols + jj ELSE jj]

\* context.getNematodeSquares of src/nematode.js: the squares whose cell is
\* copied and given the member nocolor, by type.
NoColors(type) ==
    CASE type = 0 -> {0, 1, 3, 4}
      [] type = 1 -> {0, 1, 3, 4}
      [] type = 2 -> {1, 3, 4}
      [] type = 3 -> {}
      [] OTHER -> {}

getNematodeSquares(ls, type, i, j) ==
    LET squares ==
          << [i |-> 0, j |-> 1, cell |-> contextGetSquare(ls, i - 1, j + 0), stroke |-> 1],
             [i |-> 1, j |-> 0, cell |-> contextGetSquare(ls, i + 0, j - 1), stroke |-> 1],
             [i |-> 1, j |-> 1, cell |-> contextGetSquare(ls, i + 0, j + 0), stroke |-> 1],
             [i |-> 1, j |-> 2, cell |-> contextGetSquare(ls, i + 0, j + 1), stroke |-> 1],
             [i |-> 2, j |-> 1, cell |-> contextGetSquare(ls, i + 1, j + 0), stroke |-> 1] >>
        nocolors == NoColors(type)
    IN [idx \in 1..5 |->
          IF (idx - 1) \in nocolors
          THEN [squares[idx] EXCEPT !.cell = ("nocolor" :> TRUE) @@ squares[idx].cell]
          ELSE squares[idx]]

(***************************************************************************)
(* Direct calls of every routine that wraps indices, with the arguments    *)
(* and the grids of the direct calls of the Environment's methods.         *)
(***************************************************************************)
CallContextGetSquare ==
    /\ probe' = [probe EXCEPT
                   !.op = "context.getSquare",
                   !.result = contextGetSquare(landscape, probe.i, probe.j),
                   !.shifted = contextGetSquare(landscape,
                                   probe.i + probe.k * landscape.nRows,
                                   probe.j + probe.k * landscape.nCols)]
    /\ UNCHANGED <<kind, landscape, nemaVars, pageVars, gameVars>>

CallGetCoordinateFunc(copy) ==
    /\ probe' = [probe EXCEPT
                   !.op = "getCoordinateFunc",
                   !.args = copy,
                   !.result = getCoordinateFunc(copy, landscape.nRows, landscape.nCols,
                                                probe.i, probe.j),
                   !.shifted = getCoordinateFunc(copy, landscape.nRows, landscape.nCols,
                                   probe.i + probe.k * landscape.nRows,
                                   probe.j + probe.k * landscape.nCols)]
    /\ UNCHANGED <<kind, landscape, nemaVars, pageVars, gameVars>>

NextWrap ==
    \/ CallGetMatrixCoordinates
    \/ CallGetSquare
    \/ CallContextGetSquare
    \/ \E copy \in ContextCopies : CallGetCoordinateFunc(copy)

SpecWrap == InitEnv /\ [][NextWrap]_vars

(***************************************************************************)
(* getNematodeSquares next to a nematode that has not moved: the nematode  *)
(* is new Nematode(e, .., variant) at a random cell of a small grid, and   *)
(* getNematodeSquares is called with its variant and its position.         *)
(***************************************************************************)
InitContext ==
    /\ kind \in Kinds
    /\ \E nRows \in 1..MaxRows, nCols \in 1..WalkCols :
          landscape = createLandscape(kind, "flat", nRows, nCols)
    /\ \E v \in OptionalVariant : variant = VariantOf(v)
    /\ \E i \in ArgValues(NotProvided, landscape.nRows), j \in ArgValues(NotProvided, landscape.nCols) :
          positions = << getMatrixCoordinates(landscape, i, j) >>
    /\ movements = << Undefined >>
    /\ view = DrawnSquares(landscape, variant, positions, movements)
    /\ pending = FALSE
    /\ probe = NoProbe
    /\ Unbound

CallGetNematodeSquares ==
    /\ probe.op = "none"
    /\ LET position == positions[Len(positions)] IN
         probe' = [probe EXCEPT
                     !.op = "getNematodeSquares",
                     !.i = position.i, !.j = position.j,
                     !.args = variant,
                     !.result = getNematodeSquares(landscape, variant, position.i, position.j)]
    /\ UNCHANGED <<kind, landscape, nemaVars, pageVars, gameVars>>

NextContext == CallGetNematodeSquares

SpecContext == InitContext /\ [][NextContext]_vars

(***************************************************************************)
(* Properties                                                              *)
(***************************************************************************)
\* The mathematical residue of a modulo n, in 0..n-1.
Residue(a, n) == ((a % n) + n) % n

\* C1: torus periodicity.  getSquare(i + k*nRows, j + k*nCols) returns the
\* same cell as getSquare(i, j), and getMatrixCoordinates the same indices,
\* for all integers i, j, k and every grid size.
C1_TorusPeriodicity ==
    probe.op \in {"getSquare", "getMatrixCoordinates"} => probe.result = probe.shifted

\* C1 witness: a cell looked up at a negative row, and again shifted by a
\* negative number of periods, on a grid with more than one row.
C1_Witness ==
    /\ probe.op = "getSquare" /\ probe.i < 0 /\ probe.k < 0
    /\ landscape.nRows > 1 /\ probe.result.i > 0
    /\ probe.result = probe.shifted

\* C2: getMatrixCoordinates returns a row in [0, nRows) and a column in
\* [0, nCols) for every pair of integers; (-1, 0) on the 20 x 20 grid
\* yields (19, 0).
C2_CoordinatesInRange ==
    probe.op = "getMatrixCoordinates" =>
        /\ probe.result.i \in 0..(landscape.nRows - 1)
        /\ probe.result.j \in 0..(landscape.nCols - 1)
        /\ probe.shifted.i \in 0..(landscape.nRows - 1)
        /\ probe.shifted.j \in 0..(landscape.nCols - 1)
        /\ (landscape.nRows = 20 /\ landscape.nCols = 20 /\ probe.i = 0 - 1 /\ probe.j = 0)
              => probe.result = [i |-> 19, j |-> 0]

\* C2 witness: the call (-1, 0) on the 20 x 20 grid has returned (19, 0).
C2_Witness ==
    /\ probe.op = "getMatrixCoordinates"
    /\ landscape.nRows = 20 /\ landscape.nCols = 20
    /\ probe.i = 0 - 1 /\ probe.j = 0
    /\ probe.result = [i |-> 19, j |-> 0]

(***************************************************************************)
(* The observation of the nematode in the current state.                   *)
(***************************************************************************)
CurrentPosition == positions[Len(positions)]
CurrentSquares == DrawnSquares(landscape, variant, positions, movements)
LastMovement == movements[Len(movements)]

\* The movements of the squares whose value is disclosed.
Visible(squares) == {squares[idx].movement : idx \in {x \in DOMAIN squares : ~squares[x].cell.ignorant}}

Opposite(d) ==
    CASE d = "U" -> "D"
      [] d = "D" -> "U"
      [] d = "L" -> "R"
      [] d = "R" -> "L"

\* The matrix indices a cell carries.
CellAt(sq) == [i |-> sq.cell.i, j |-> sq.cell.j]

C4_Variant0Blind ==
    variant = 0 => Visible(CurrentSquares) = {"S"}

\* C4 witness: a variant 0 nematode that has made two moves sees only S.
C4_Witness ==
    /\ variant = 0 /\ Len(positions) = 3
    /\ LastMovement = "R"
    /\ Visible(CurrentSquares) = {"S"}

\* C5: for variant 1, after a last move d in {U, D, L, R} the visible set is
\* exactly {Stay, opposite(d)}; after a last move Stay it is exactly {Stay}.
C5_Variant1Behind ==
    (variant = 1 /\ Len(positions) > 1) =>
        IF LastMovement = "S"
        THEN Visible(CurrentSquares) = {"S"}
        ELSE /\ LastMovement \in {"U", "D", "L", "R"}
             /\ Visible(CurrentSquares) = {"S", Opposite(LastMovement)}

\* C5 witness: variant 1 after a Down move sees Stay and Up.
C5_Witness ==
    /\ variant = 1 /\ Len(positions) > 1
    /\ LastMovement = "D"
    /\ Visible(CurrentSquares) = {"S", "U"}

\* C6: for variant 2, after a last move d in {U, D, L, R} the visible set is
\* exactly {Stay, d}; after a last move Stay it is exactly {Stay}.
C6_Variant2Ahead ==
    (variant = 2 /\ Len(positions) > 1) =>
        IF LastMovement = "S"
        THEN Visible(CurrentSquares) = {"S"}
        ELSE /\ LastMovement \in {"U", "D", "L", "R"}
             /\ Visible(CurrentSquares) = {"S", LastMovement}

\* C6 witness: variant 2 after a Down move sees Stay and Down.
C6_Witness ==
    /\ variant = 2 /\ Len(positions) > 1
    /\ LastMovement = "D"
    /\ Visible(CurrentSquares) = {"S", "D"}

\* C7: for variant 3 all five offsets are visible, at the start and after
\* any sequence of moves.
C7_Variant3Omniscient ==
    variant = 3 => Visible(CurrentSquares) = {"U", "L", "S", "R", "D"}

\* C7 witness: a variant 3 nematode that has made two moves sees all five.
C7_Witness ==
    /\ variant = 3 /\ Len(positions) = 3
    /\ \A idx \in 1..5 : ~CurrentSquares[idx].cell.ignorant

\* C8: whenever the nematode has no previous move (after construction and
\* after every setPosition), the visible set of variants 0, 1 and 2 is
\* exactly {Stay}, in the observation and in the local view as drawn.
C8_StartStayOnly ==
    (Len(positions) = 1 /\ variant \in {0, 1, 2}) =>
        /\ movements = << Undefined >>
        /\ Visible(CurrentSquares) = {"S"}
        /\ Visible(view) = {"S"}

\* C8 witness: a variant 1 nematode is teleported while the transition of
\* an earlier move is still running, and sees only Stay.
C8_Witness ==
    /\ Len(positions) = 1 /\ pending
    /\ variant = 1
    /\ Visible(view) = {"S"}

\* C9: positions and movements have the same length >= 1, movements[0] is
\* undefined, and a step that lengthens the history appends exactly one
\* entry to each list and leaves the earlier entries as they were.
C9_HistoriesInStep ==
    /\ [](/\ Len(positions) = Len(movements)
          /\ Len(positions) >= 1
          /\ movements[1] = Undefined)
    /\ [][Len(positions') > Len(positions) =>
             /\ Len(positions') = Len(positions) + 1
             /\ Len(movements') = Len(movements) + 1
             /\ SubSeq(positions', 1, Len(positions)) = positions
             /\ SubSeq(movements', 1, Len(movements)) = movements
             /\ movements'[Len(movements')] \in {"U", "L", "S", "R", "D"}]_vars

\* C9 witness: two accepted moves of the nematode that rejects Stay.
C9_Witness ==
    /\ kind = "richer"
    /\ Len(positions) = 3 /\ Len(movements) = 3
    /\ movements[1] = Undefined /\ movements[2] = "L"

\* C10: every entry of positions has its row in [0, nRows) and its column
\* in [0, nCols).
C10_PositionsInBounds ==
    \A idx \in 1..Len(positions) :
        /\ positions[idx].i \in 0..(landscape.nRows - 1)
        /\ positions[idx].j \in 0..(landscape.nCols - 1)

\* C10 witness: a move Up from the top row has landed on the bottom row.
C10_Witness ==
    /\ Len(positions) > 1
    /\ landscape.nRows = 3
    /\ positions[Len(positions) - 1].i = 0
    /\ LastMovement = "U"
    /\ CurrentPosition.i = 2

(***************************************************************************)
(* Moves on the torus.                                                     *)
(***************************************************************************)
\* The movements after the first are all d.
AllMoves(d) == \A n \in 2..Len(movements) : movements[n] = d

\* C11: from any start (r, c), after k accepted Right moves, each made on a
\* redrawn view, positions has length k + 1, movements is undefined followed
\* by k entries R, and the current position is (r, (c + k) mod nCols); nCols
\* Right moves lead back to the start; a move Up from row 0 lands on row
\* nRows - 1.
C11_RightMovesWrap ==
    LET k == Len(positions) - 1
        start == positions[1]
        nRows == landscape.nRows
        nCols == landscape.nCols
    IN /\ AllMoves("R") =>
             /\ Len(movements) = k + 1
             /\ movements[1] = Undefined
             /\ CurrentPosition = [i |-> start.i, j |-> (start.j + k) % nCols]
             /\ (k = nCols => CurrentPosition = start)
       /\ \A n \in 2..Len(positions) :
             (movements[n] = "U" /\ positions[n - 1].i = 0) =>
                 positions[n] = [i |-> nRows - 1, j |-> positions[n - 1].j]

\* C11 witness: two Right moves from column 2 of three columns have wrapped
\* to column 1.
C11_Witness ==
    /\ landscape.nCols = 3
    /\ positions[1].j = 2
    /\ Len(positions) = 3 /\ AllMoves("R")
    /\ positions[2].j = 0
    /\ CurrentPosition.j = 1

(***************************************************************************)
(* The game.                                                               *)
(***************************************************************************)
\* C12: once alive is false, a click on any of the five squares of the
\* local view leaves positions, movements and energy as they are, until the
\* nematode is given life again.
C12_DeadRejectsMoves ==
    [][(~alive /\ \E idx \in 1..5 : ClickSquare(idx))
          => UNCHANGED <<positions, movements, energy>>]_vars

\* The value of the field at the cell of the matrix a position names.
ValueAt(position) == landscape.matrix[position.i][position.j].z

\* The sum of the values of the field over a list of positions.
RECURSIVE SumOfValues(_)
SumOfValues(pos) ==
    IF Len(pos) = 0 THEN 0 ELSE ValueAt(pos[1]) + SumOfValues(Tail(pos))

C14_ResetForNewGame ==
    [][timers' < timers =>
          /\ Len(positions') = 1
          /\ positions'[1].i \in 0..(landscape.nRows - 1)
          /\ positions'[1].j \in 0..(landscape.nCols - 1)
          /\ movements' = << Undefined >>
          /\ energy' = 0
          /\ alive' = TRUE
          /\ clickCallbacks' = clickCallbacks
          /\ variant' = variant]_vars

\* C14 witness: the last countdown shown was 0, every timeout has fired and
\* the nematode is alive at the start of a game of variant 2.
C14_Witness ==
    /\ page = "easy" /\ timers = 0
    /\ calls # << >> /\ calls[1].shown <= 0
    /\ variant = 2
    /\ Len(positions) = 1 /\ movements = << Undefined >>
    /\ energy = 0 /\ alive

\* The movements of the visible squares prescribed for a variant whose last
\* movement is last.
Prescribed(v, last) ==
    CASE v = 0 -> {"S"}
      [] v = 1 -> IF last \in {"U", "D", "L", "R"} THEN {"S", Opposite(last)} ELSE {"S"}
      [] v = 2 -> IF last \in {"U", "D", "L", "R"} THEN {"S", last} ELSE {"S"}
      [] v = 3 -> {"U", "L", "S", "R", "D"}

\* C15: on a page whose change handler is setVariant alone, a step that
\* changes the variant leaves positions, movements, energy and alive as
\* they are, and the view drawn by it is the observation prescribed for the
\* new variant and the last movement.
C15_SetVariantFrame ==
    [][(page = "index" /\ variant' # variant) =>
          /\ positions' = positions
          /\ movements' = movements
          /\ energy' = energy
          /\ alive' = alive
          /\ \A idx \in 1..5 : CellAt(view'[idx]) = CellAt(CurrentSquares[idx])
          /\ Visible(view') = Prescribed(variant', LastMovement)]_vars

\* C15 witness: the variant was set to 2 after a move Down that has earned
\* energy, and the view shows Stay and Down.
C15_Witness ==
    /\ page = "index" /\ variant = 2
    /\ Len(positions) > 1 /\ LastMovement = "D"
    /\ energy # 0
    /\ Visible(view) = {"S", "D"}

C19_VariantValidated == variant \in {0, 1, 2, 3}

CentreOfBand(lo, hi, n, k) ==
    [num |-> (n * lo + k * (hi - lo)) + (n * lo + (k + 1) * (hi - lo)), den |-> 2 * n]

\* C21: createLandscape inverts the row axis and samples the centres of the
\* cells: y of row i is the centre of the (nRows-1-i)-th of nRows equal
\* bands of [yMin, yMax], so y strictly decreases as i grows; x of column j
\* is the centre of the j-th of nCols equal bands of [xMin, xMax], so x
\* strictly increases with j.
C21_CellCentres ==
    probe.op = "createLandscape" =>
        LET a == probe.args
            r == probe.result
        IN /\ \A i \in 0..(a.nRows - 1) :
                 r.y[i] = CentreOfBand(a.yMin, a.yMax, a.nRows, a.nRows - 1 - i)
           /\ \A j \in 0..(a.nCols - 1) :
                 r.x[j] = CentreOfBand(a.xMin, a.xMax, a.nCols, j)
           /\ \A i1, i2 \in 0..(a.nRows - 1) : i1 < i2 => r.y[i1].num > r.y[i2].num
           /\ \A j1, j2 \in 0..(a.nCols - 1) : j1 < j2 => r.x[j1].num < r.x[j2].num

\* C21 witness: three rows over [-3, 3]: row 0 is sampled at y = 2 and row 2
\* at y = -2; two columns over [-3, 3] are sampled at x = -3/2 and x = 3/2.
C21_Witness ==
    /\ probe.op = "createLandscape"
    /\ probe.args.nRows = 3 /\ probe.args.yMin = PageMin /\ probe.args.yMax = PageMax
    /\ probe.args.nCols = 2 /\ probe.args.xMin = PageMin /\ probe.args.xMax = PageMax
    /\ probe.result.y[0] = [num |-> 12, den |-> 6]
    /\ probe.result.y[2] = [num |-> 0 - 12, den |-> 6]
    /\ probe.result.x[0] = [num |-> 0 - 6, den |-> 4]
    /\ probe.result.x[1] = [num |-> 6, den |-> 4]

\* C22: in every createLandscape of the repository, and for all numbers of
\* rows and columns, square or not, the cell at row i and column j is
\* labelled m = j and n = nRows-1-i, so that n lies in [0, nRows) and (0, 0)
\* is the bottom-left cell.
C22_GridLabels ==
    probe.op = "createLandscape" =>
        LET r == probe.result IN
        \A i \in 0..(r.nRows - 1), j \in 0..(r.nCols - 1) :
           /\ r.matrix[i][j].m = j
           /\ r.matrix[i][j].n = r.nRows - 1 - i
           /\ r.matrix[i][j].n \in 0..(r.nRows - 1)

\* C23: the matrix holds exactly one cell for every (i, j) of
\* [0, nRows) x [0, nCols) and the cell's i and j are its indices; min and
\* max of the landscape are the least and the greatest z of the cells.
C23_MatrixAndExtremes ==
    probe.op = "createLandscape" =>
        LET r == probe.result
            rows == 0..(probe.args.nRows - 1)
            cols == 0..(probe.args.nCols - 1)
        IN /\ DOMAIN r.matrix = rows
           /\ \A i \in rows :
                 /\ DOMAIN r.matrix[i] = cols
                 /\ \A j \in cols : r.matrix[i][j].i = i /\ r.matrix[i][j].j = j
           /\ r.min.inf = 0 /\ r.max.inf = 0
           /\ \E i \in rows, j \in cols : r.matrix[i][j].z = r.min.v
           /\ \E i \in rows, j \in cols : r.matrix[i][j].z = r.max.v
           /\ \A i \in rows, j \in cols :
                 r.min.v <= r.matrix[i][j].z /\ r.matrix[i][j].z <= r.max.v

\* C23 witness: a 3 x 3 grid of the field that takes the values -1, 1 and 3
\* has min = -1 and max = 3, and a single cell of it has min = max = -1.
C23_Witness ==
    /\ probe.op = "createLandscape"
    /\ probe.args.func = "waves"
    /\ \/ /\ probe.args.nRows = 3 /\ probe.args.nCols = 3
          /\ probe.result.min = Fin(0 - 1) /\ probe.result.max = Fin(3)
       \/ /\ probe.args.nRows = 1 /\ probe.args.nCols = 1
          /\ probe.result.min = Fin(0 - 1) /\ probe.result.max = Fin(0 - 1)

\* C24: every routine that wraps indices (Environment.getMatrixCoordinates,
\* Environment.getSquare, context.getSquare and the function returned by
\* getCoordinateFunc) computes ((index % size) + size) % size: the indices
\* it yields are the residues of its arguments and are never negative.
C24_WrappingRoutinesAgree ==
    probe.op \in {"getMatrixCoordinates", "getSquare", "context.getSquare", "getCoordinateFunc"} =>
        /\ probe.result.i = Residue(probe.i, landscape.nRows)
        /\ probe.result.j = Residue(probe.j, landscape.nCols)
        /\ probe.result.i >= 0 /\ probe.result.j >= 0

\* C30: getNematodeSquares(type, i, j) of src/nematode.js returns the same
\* five wrapped cells as Nematode.getSquares at (i, j) and hides the same
\* squares as getSquares hides for that variant when no move has been made.
C30_ObservationsAgree ==
    probe.op = "getNematodeSquares" =>
        \A idx \in 1..5 :
           /\ probe.result[idx].i = CurrentSquares[idx].i
           /\ probe.result[idx].j = CurrentSquares[idx].j
           /\ probe.result[idx].cell.i = CurrentSquares[idx].cell.i
           /\ probe.result[idx].cell.j = CurrentSquares[idx].cell.j
           /\ ("nocolor" \in DOMAIN probe.result[idx].cell) <=> CurrentSquares[idx].cell.ignorant

\* The cell next to position p in direction d, on the torus.
Neighbour(p, d) ==
    LET di == CASE d = "U" -> 0 - 1 [] d = "D" -> 1 [] OTHER -> 0
        dj == CASE d = "L" -> 0 - 1 [] d = "R" -> 1 [] OTHER -> 0
    IN [i |-> Residue(p.i + di, landscape.nRows), j |-> Residue(p.j + dj, landscape.nCols)]

\* C25: however the clicks interleave with the delayed redraws, the history
\* stays a walk: for every k >= 1 positions[k] is the torus-wrapped
\* neighbour of positions[k-1] in the direction movements[k].
C25_HistoryIsAWalk ==
    \A k \in 2..Len(positions) : positions[k] = Neighbour(positions[k - 1], movements[k])

\* C26: on a page with a budget, gameOver is scheduled at most once in a
\* game (between two resets) and executed at most once for it, and the data
\* it reports has moves = maxMoves, however clicks and teleports interleave
\* with the 500 ms timer.  The flag alive is FALSE from the scheduling of
\* gameOver to the next reset: a timeout is set only in a game that is
\* alive, and a timeout fires only in a game that is dead and has made
\* maxMoves moves.
C26_GameOverOnce ==
    /\ [][(page = "easy" /\ timers' > timers) => (alive /\ timers = 0)]_vars
    /\ [][(page = "easy" /\ timers' < timers) => (~alive /\ GameReport.moves = maxMoves)]_vars

\* A step that starts a new game: gameOver, or the variant selector of the
\* easy page.
ResetStep == gameOver \/ (page = "easy" /\ \E v \in SelectValues : bindVariant(v))

\* C27: a teleport does not count as a move: the number of moves made,
\* len(positions) - 1, and the countdown are the same after a teleport as
\* before it, and within a game the countdown never increases.
C27_TeleportIsNoMove ==
    /\ [][(\E i \in 0..(landscape.nRows - 1), j \in 0..(landscape.nCols - 1) : Teleport(i, j))
            => /\ Len(positions') - 1 = Len(positions) - 1
               /\ CountdownValue(maxMoves, positions') = CountdownValue(maxMoves, positions)]_vars
    /\ [][(page = "easy" /\ ~ResetStep)
            => CountdownValue(maxMoves, positions') <= CountdownValue(maxMoves, positions)]_vars

\* C28: on the hard page the budget of 75 moves takes effect: the countdown
\* callback is registered with maxMoves = 75, every accepted move makes it
\* show 75 - (len(positions) - 1), and a nematode that has made 75 moves is
\* marked dead.
C28_HardBudget ==
    /\ [](page = "hard" => (clickCallbacks = << "countdown" >> /\ maxMoves = HardBudget))
    /\ [](page = "hard" /\ Len(positions) - 1 >= HardBudget => ~alive)
    /\ [][(page = "hard" /\ Len(positions') = Len(positions) + 1)
            => calls' = << [callback |-> "countdown", length |-> Len(positions'),
                            shown |-> HardBudget - (Len(positions') - 1)] >>]_vars

\* The cells the local view shows in hidden squares only.
HiddenCells ==
    {CellAt(view[idx]) : idx \in {x \in 1..5 : view[x].cell.ignorant}}
       \ {CellAt(view[idx]) : idx \in {x \in 1..5 : ~view[x].cell.ignorant}}

\* The landscape with the value v at cell c, and a square of the view as it
\* is on that landscape.
LandscapeWith(c, v) == [landscape EXCEPT !.matrix[c.i][c.j].z = v]
SquareWith(sq, c, v) == IF CellAt(sq) = c THEN [sq EXCEPT !.cell.z = v] ELSE sq

\* The values a cell is given in the second landscape.
OtherValues == (0 - 3)..3

\* C29: what the local view shows for a hidden cell does not depend on the
\* value of the cell: on two landscapes that differ only in the value of a
\* cell hidden from the nematode, the class, fill, tooltip and text written
\* for the squares of that cell are the same, the tooltip and the text
\* being empty; a visible square shows its value to 3 decimals.
C29_HiddenOutputIndependent ==
    \A idx \in 1..5 :
        LET out == Rendered(kind, view[idx], Extremes(landscape)) IN
        IF view[idx].cell.ignorant
        THEN /\ out.title = EmptyText
             /\ out.text = EmptyText
             /\ CellAt(view[idx]) \in HiddenCells =>
                   \A v \in OtherValues :
                      Rendered(kind, SquareWith(view[idx], CellAt(view[idx]), v),
                               Extremes(LandscapeWith(CellAt(view[idx]), v))) = out
        ELSE out.title = toFixed(view[idx].cell.z, 3)

====
